---- MODULE Spec2Model ----
(***************************************************************************)
(* Client-side state machines of the task manager front end:               *)
(*   - the session store (lib/auth-context.tsx) and its storage sync,      *)
(*   - the REST task client (lib/api.ts) and the task list of the home     *)
(*     page (pages/index.tsx),                                             *)
(*   - the chat client (lib/chat-api.ts) and the Chat component.           *)
(* The backend is not part of the repository; it is modelled as an         *)
(* environment that answers each request once, in any order.               *)
(***************************************************************************)
EXTENDS Integers, Sequences, FiniteSets, Bags, TLC

\* ------------------------------------------------------------------ bounds
MaxId == 2          \* largest task id the backend assigns
MaxOps == 2         \* requests the user triggers between two page loads
MaxLen == 1         \* longest text typed into an input field
MaxConv == 1        \* largest conversation id the backend assigns
MaxMsgs == 4        \* longest chat transcript

\* ------------------------------------------------------------ basic values
\* A nullable value is a sequence of length at most one.
Null == <<>>
Some(x) == <<x>>

\* JavaScript truthiness of a nullable string: null and "" are falsy.
Truthy(opt) == opt # Null /\ opt[1] # ""

Chars == {" ", "a"}

RECURSIVE SeqsUpTo(_, _)
SeqsUpTo(S, n) ==
  IF n = 0 THEN {<<>>}
  ELSE LET shorter == SeqsUpTo(S, n - 1)
       IN shorter \cup {Append(s, c) : s \in shorter, c \in S}

RawTexts == SeqsUpTo(Chars, MaxLen)

\* String.prototype.trim over a sequence of characters.
RECURSIVE TrimLeft(_)
TrimLeft(s) ==
  IF s = <<>> THEN s
  ELSE IF Head(s) = " " THEN TrimLeft(Tail(s)) ELSE s

RECURSIVE TrimRight(_)
TrimRight(s) ==
  IF s = <<>> THEN s
  ELSE IF s[Len(s)] = " " THEN TrimRight(SubSeq(s, 1, Len(s) - 1)) ELSE s

Trim(s) == TrimRight(TrimLeft(s))

Titles == {Trim(s) : s \in RawTexts} \ {<<>>}

\* Tokens the auth endpoint may put in a response, users it may return.
Tokens == {"", "t1", "t2"}
Users == {[id |-> "u1", email |-> "a@x.com"], [id |-> "u2", email |-> "b@x.com"]}

\* JSON.stringify / JSON.parse of the user object kept under the "user" key.
JSONstringify(u) == [fmt |-> "json", id |-> u.id, email |-> u.email]
JSONparses(s) == s.fmt = "json"
JSONparse(s) == [id |-> s.id, email |-> s.email]
CorruptUser == [fmt |-> "raw", id |-> "", email |-> ""]

Pages == {"home", "login", "signup", "logout"}

VARIABLES
  phase,          \* "unmounted", "mounted" (first commit done), "ready"
  page,           \* page component shown under the AuthProvider
  token,          \* AuthProvider state: nullable string
  user,           \* AuthProvider state: nullable {id, email}
  isInitialized,  \* AuthProvider state
  storage,        \* localStorage: keys jwt_token and user, each nullable
  authLoading,    \* AuthForm state: loading
  alertText,      \* text of the last alert() raised by login/signup
  loggedOut,      \* history: logout() was called, no login/signup succeeded since
  expired,        \* history: a 401 cleared localStorage since the last login or page load
  tasks,          \* Home state: sequence of Task
  loading,        \* Home state
  message,        \* Home state: banner
  hist,           \* history: ids loaded, created and deleted as confirmed to Home
  messages,       \* Chat state: transcript
  input,          \* Chat state: text of the input field
  chatLoading,    \* Chat state: loading
  conversationId, \* Chat state: nullable number
  conversations,  \* Chat state: ids of the conversations in the sidebar
  showChat,       \* Home state: the Chat component is mounted
  submits,        \* history: number of handleSubmit calls of Chat, modulo 2
  assigned,       \* history: conversation id the backend gave the current chat thread
  formTitle,      \* TaskForm state: title
  editor,         \* TaskItem state: the item in edit mode and its editTitle, or null
  clicks,         \* history: calls of TaskForm.handleSubmit and of TaskItem.handleSave, modulo 2
  net,            \* bag of HTTP requests and responses in flight
  issued,         \* number of requests the user triggered since the page load
  srvTasks,       \* backend: set of Task
  nextId,         \* backend: next task id to assign
  nextConv,       \* backend: next conversation id to assign
  srvMsgs         \* backend: stored conversation messages, oldest first

sessionVars == <<token, user, isInitialized, storage, expired>>
authVars == <<authLoading, alertText, loggedOut>>
homeVars == <<tasks, loading, message, hist>>
chatVars == <<messages, input, chatLoading, conversationId, conversations, showChat, submits,
              assigned>>
formVars == <<formTitle, editor, clicks>>
srvVars == <<srvTasks, nextId, nextConv, srvMsgs>>
vars == <<phase, page, token, user, isInitialized, storage, authLoading,
          alertText, loggedOut, expired, tasks, loading, message, hist, messages, input,
          chatLoading, conversationId, conversations, showChat, submits, assigned,
          formTitle, editor, clicks, net, issued, srvTasks, nextId, nextConv, srvMsgs>>

\* ----------------------------------------------------------- session store
\* value.isAuthenticated
IsAuthenticated == Truthy(token)

EmptyStorage == [jwt_token |-> Null, user |-> Null]

\* SyncEffect without its test of isInitialized.
SyncEffect_NoInitGuard(tok, usr, init, st) ==
  IF Truthy(tok)
  THEN [jwt_token |-> tok,
        user |-> IF usr # Null THEN Some(JSONstringify(usr[1])) ELSE st.user]
  ELSE EmptyStorage

\* Body of the second effect of AuthProvider, run with the token, user and
\* isInitialized of the render it belongs to.
SyncEffect(tok, usr, init, st) ==
  IF ~init THEN st
  ELSE IF Truthy(tok)
       THEN [jwt_token |-> tok,
             user |-> IF usr # Null THEN Some(JSONstringify(usr[1])) ELSE st.user]
       ELSE EmptyStorage

\* Values passed to setToken / setUser by the first effect of AuthProvider.
InitTokenUpdates(st) ==
  IF Truthy(st.jwt_token) THEN <<st.jwt_token>> ELSE <<>>

InitUserUpdates(st) ==
  IF st.user # Null /\ JSONparses(st.user[1])
  THEN <<Some(JSONparse(st.user[1]))>>
  ELSE <<>>

\* Values passed to setToken / setUser by logout().
LogoutTokenUpdates == <<Null>>
LogoutUserUpdates == <<Null>>

\* Effect of the page component on mount.  Effects of a child run before
\* those of its parent, so these updates are queued before the provider's.
PageTokenUpdates(p) == IF p = "logout" THEN LogoutTokenUpdates ELSE <<>>
PageUserUpdates(p) == IF p = "logout" THEN LogoutUserUpdates ELSE <<>>

\* React applies the queued updates of one batch in order.
ApplyUpdates(cur, updates) ==
  IF updates = <<>> THEN cur ELSE updates[Len(updates)]

\* -------------------------------------------------------------- HTTP layer
Msg(kind, api, op) ==
  [kind |-> kind, api |-> api, op |-> op, id |-> 0, title |-> <<>>,
   auth |-> Null, status |-> 0, statusText |-> "", detail |-> Null,
   json |-> TRUE, body |-> <<>>, text |-> <<>>, conv |-> Null, tok |-> Null,
   usr |-> Null, convs |-> <<>>, ctx |-> Null, msgs |-> <<>>]

Put(m) == net (+) SetToBag({m})
Take(m) == net (-) SetToBag({m})
CanSend == issued < MaxOps
netVars == <<net, issued>>

\* A handler issues a request on the user's behalf.
Send(m) == net' = Put(m) /\ issued' = issued + 1
\* An effect issues a request.
SendAuto(m) == net' = Put(m) /\ UNCHANGED issued
\* A handler resumes with the response it awaited.
Receive(r) == net' = Take(r) /\ UNCHANGED issued
\* A handler resumes with its response and has an effect issue a request.
ReceiveAndSend(r, m) == net' = Take(r) (+) SetToBag({m}) /\ UNCHANGED issued
\* The backend turns a request into its response.
Answer(m, resp) == net' = Take(m) (+) SetToBag({resp}) /\ UNCHANGED issued
Requests == {m \in BagToSet(net) : m.kind = "req"}
Responses == {m \in BagToSet(net) : m.kind = "resp"}

\* Authorization header built by apiRequest and authFetch from localStorage.
Bearer(t) == <<"Bearer ", t>>
\* AuthHeader reading a key that is never written.
AuthHeader_WrongKey(st) == Null

AuthHeader(st) == IF Truthy(st.jwt_token) THEN Bearer(st.jwt_token[1]) ELSE Null

StatusText(status) ==
  CASE status = 200 -> "OK"
    [] status = 401 -> "Unauthorized"
    [] status = 404 -> "Not Found"
    [] status = 500 -> "Internal Server Error"
    [] OTHER -> ""

AuthExpiredText == <<"Authentication expired. Please login again.">>
FailedToFetchText == <<"Failed to fetch">>
ApiErrorText(statusText) == <<"API Error: ", statusText>>

\* Message of the error thrown by apiRequest for a response that is not ok
\* (status 0 stands for fetch itself rejecting).
ApiRequestError(r) ==
  IF r.status = 0 THEN FailedToFetchText
  ELSE IF r.status = 401 THEN AuthExpiredText
  ELSE ApiErrorText(r.statusText)

\* StorageAfterResponse that leaves the keys in place on 401.
StorageAfterResponse_Keep(r, st) == st

\* StorageAfterResponse that clears the keys on every failed response.
StorageAfterResponse_ClearOnAnyError(r, st) ==
  IF r.status # 200 THEN EmptyStorage ELSE st

\* localStorage after apiRequest / authFetch has looked at the response.
StorageAfterResponse(r, st) ==
  IF r.status = 401 THEN EmptyStorage ELSE st

ResponseOk(r) == r.status = 200

\* ------------------------------------------------------------------- Init
NoMessage == [type |-> "none", text |-> <<>>]

\* history kept for the statements about the task list: the ids of the most
\* recent successful loadTasks (loaded, none yet: ok = FALSE), the ids whose
\* create / delete was confirmed since Home was mounted (created, deleted)
\* and since that loadTasks was applied (createdSince, deletedSince).
NoHistory == [ok |-> FALSE, loaded |-> {}, created |-> {}, deleted |-> {},
              createdSince |-> {}, deletedSince |-> {}]
Banner(type, text) == [type |-> type, text |-> text]

Task(id, title, completed) == [id |-> id, title |-> title, completed |-> completed]

NoClicks == [submit |-> 0, save |-> 0]

\* What an earlier visit may have left in localStorage.
InitialStorages ==
  {EmptyStorage,
   [jwt_token |-> Some("t1"), user |-> Some(JSONstringify([id |-> "u1", email |-> "a@x.com"]))],
   [jwt_token |-> Some("t1"), user |-> Some(CorruptUser)]}

InitialServerTasks == {{}, {Task(1, <<"x">>, FALSE)}}

\* A message as the backend stores and returns it (ConversationMessage).
StoredMessage(conv, role, content) ==
  [conversation_id |-> conv, role |-> role, content |-> content]

ReplyText == <<"r">>

\* The backend of a new account, and of an account used before: one task,
\* and one conversation (id 0) of one exchange.
InitialBackends ==
  {[tasks |-> ts,
    convs |-> Cardinality(ts),
    msgs |-> IF ts = {} THEN <<>>
             ELSE <<StoredMessage(0, "user", <<"x">>),
                    StoredMessage(0, "assistant", ReplyText)>>] : ts \in InitialServerTasks}

Init ==
  /\ phase = "unmounted"
  /\ page = "none"
  /\ token = Null
  /\ user = Null
  /\ isInitialized = FALSE
  /\ storage \in InitialStorages
  /\ authLoading = FALSE
  /\ alertText = <<>>
  /\ loggedOut = FALSE
  /\ expired = FALSE
  /\ tasks = <<>>
  /\ loading = TRUE
  /\ message = NoMessage
  /\ hist = NoHistory
  /\ messages = <<>>
  /\ input = <<>>
  /\ chatLoading = FALSE
  /\ conversationId = Null
  /\ conversations = <<>>
  /\ showChat = FALSE
  /\ submits = 0
  /\ assigned = Null
  /\ formTitle = <<>>
  /\ editor = Null
  /\ clicks = NoClicks
  /\ net = EmptyBag
  /\ issued = 0
  /\ \E b \in InitialBackends :
       /\ srvTasks = b.tasks
       /\ nextConv = b.convs
       /\ srvMsgs = b.msgs
  /\ nextId = Cardinality(srvTasks) + 1

\* ------------------------------------------------------- page load / mount
\* taskApi.getTasks() as called by loadTasks: the header is read from
\* localStorage when the call is made.
GetTasksRequest(st) == [Msg("req", "task", "getTasks") EXCEPT !.auth = AuthHeader(st)]

\* Effects of the first commit after a full page load of page p: the page's
\* own effect, then the two effects of AuthProvider, which still see the
\* token, user and isInitialized of the first render.
MountEffects(p) ==
  /\ phase = "unmounted"
  /\ phase' = "mounted"
  /\ page' = IF p = "logout" THEN "login" ELSE p
  /\ loggedOut' = (p = "logout")
  /\ token' = ApplyUpdates(token, PageTokenUpdates(p) \o InitTokenUpdates(storage))
  /\ user' = ApplyUpdates(user, PageUserUpdates(p) \o InitUserUpdates(storage))
  /\ isInitialized' = TRUE
  /\ storage' = SyncEffect(token, user, isInitialized, storage)
  /\ UNCHANGED <<expired, authLoading, alertText, homeVars, chatVars, netVars, srvVars, formVars>>

\* Effects of the commit that renders the state set during mount: Home's
\* effect on isAuthenticated (child first), then the provider's sync effect.
CommitInitialState ==
  /\ phase = "mounted"
  /\ phase' = "ready"
  /\ storage' = SyncEffect(token, user, isInitialized, storage)
  /\ IF page = "home" /\ IsAuthenticated
     THEN /\ loading' = TRUE
          /\ message' = NoMessage
          /\ SendAuto(GetTasksRequest(storage))
     ELSE UNCHANGED <<loading, message, netVars>>
  /\ UNCHANGED <<page, token, user, isInitialized, expired, authVars, tasks, hist, chatVars, srvVars, formVars>>

\* A full page load (address bar or one of the <a href> links): the
\* JavaScript state is rebuilt, localStorage and the backend survive.
Reload ==
  /\ phase = "ready"
  /\ net = EmptyBag
  /\ phase' = "unmounted"
  /\ page' = "none"
  /\ token' = Null
  /\ user' = Null
  /\ isInitialized' = FALSE
  /\ authLoading' = FALSE
  /\ alertText' = <<>>
  /\ loggedOut' = FALSE
  /\ expired' = FALSE
  /\ tasks' = <<>>
  /\ loading' = TRUE
  /\ message' = NoMessage
  /\ hist' = NoHistory
  /\ messages' = <<>>
  /\ input' = <<>>
  /\ chatLoading' = FALSE
  /\ conversationId' = Null
  /\ conversations' = <<>>
  /\ showChat' = FALSE
  /\ submits' = 0
  /\ assigned' = Null
  /\ formTitle' = <<>>
  /\ editor' = Null
  /\ clicks' = NoClicks
  /\ net' = net
  /\ issued' = 0
  /\ UNCHANGED <<storage, srvVars>>

\* ------------------------------------------------- login, signup, logout
\* AuthForm.handleSubmit up to the await of login() / signup().
AuthFormSubmit(mode) ==
  /\ phase = "ready"
  /\ page = mode
  /\ ~authLoading
  /\ CanSend
  /\ authLoading' = TRUE
  /\ Send([Msg("req", "auth", IF mode = "login" THEN "signIn" ELSE "signUp")
                    EXCEPT !.json = TRUE])
  /\ UNCHANGED <<phase, page, sessionVars, alertText, loggedOut, homeVars, chatVars, srvVars, formVars>>

\* AuthRequestError returning whatever body it got without parsing it.
AuthRequestError_IgnoresNotJson(r) ==
  IF r.status = 0
    THEN Some("Cannot connect to server. Make sure the backend is running on http://localhost:8000")
  ELSE IF ~ResponseOk(r)
    THEN Some(IF Truthy(r.detail) THEN r.detail[1] ELSE "Request failed")
  ELSE Null

\* Message of the error thrown by authRequest, Null if it returns the data.
AuthRequestError(r) ==
  IF r.status = 0
    THEN Some("Cannot connect to server. Make sure the backend is running on http://localhost:8000")
  ELSE IF ~r.json
    THEN Some(IF r.statusText # "" THEN r.statusText ELSE "Request failed")
  ELSE IF ~ResponseOk(r)
    THEN Some(IF Truthy(r.detail) THEN r.detail[1] ELSE "Request failed")
  ELSE Null

\* login() / signup() after the await, then the rest of AuthForm.handleSubmit:
\* onSuccess() pushes "/", which mounts Home with its initial state.
AuthResponse(r) ==
  /\ r \in Responses
  /\ r.api = "auth"
  /\ authLoading' = FALSE
  /\ IF AuthRequestError(r) = Null
     THEN /\ token' = r.tok
          /\ user' = r.usr
          /\ storage' = SyncEffect(r.tok, r.usr, isInitialized, storage)
          /\ loggedOut' = FALSE
          /\ expired' = FALSE
          /\ page' = "home"
          /\ tasks' = <<>>
          /\ hist' = NoHistory
          /\ formTitle' = <<>>
          /\ editor' = Null
          /\ IF Truthy(r.tok)
             THEN /\ loading' = TRUE
                  /\ message' = NoMessage
                  /\ ReceiveAndSend(r, GetTasksRequest(storage'))
             ELSE /\ loading' = TRUE
                  /\ message' = NoMessage
                  /\ Receive(r)
          /\ UNCHANGED alertText
     ELSE /\ alertText' = AuthRequestError(r)
          /\ Receive(r)
          /\ UNCHANGED <<page, token, user, storage, loggedOut, expired, homeVars, formTitle, editor>>
  /\ UNCHANGED <<phase, isInitialized, chatVars, srvVars, clicks>>

\* logout() of the session store, followed by the sync effect when the
\* render it causes has a changed token or user.
Logout ==
  /\ phase = "ready"
  /\ token' = ApplyUpdates(token, LogoutTokenUpdates)
  /\ user' = ApplyUpdates(user, LogoutUserUpdates)
  /\ storage' = IF token' # token \/ user' # user
                THEN SyncEffect(token', user', isInitialized, storage)
                ELSE storage
  /\ loggedOut' = TRUE
  /\ UNCHANGED <<phase, page, isInitialized, expired, authLoading, alertText, homeVars, chatVars, netVars, srvVars, formVars>>

\* The auth endpoint answers a login / signup request.
AuthServer(m) ==
  /\ m \in Requests
  /\ m.api = "auth"
  /\ \E outcome \in {"ok", "rejected", "notjson", "netfail"} :
       \E t \in Tokens, u \in Users, d \in {Null, Some("Invalid credentials")},
          s \in {200, 500} :
         LET base == [m EXCEPT !.kind = "resp"]
             resp == CASE outcome = "ok" ->
                            [base EXCEPT !.status = 200, !.statusText = StatusText(200),
                                         !.tok = Some(t), !.usr = Some(u)]
                       [] outcome = "rejected" ->
                            [base EXCEPT !.status = 401, !.statusText = StatusText(401),
                                         !.detail = d]
                       [] outcome = "notjson" ->
                            [base EXCEPT !.status = s, !.statusText = StatusText(s),
                                         !.json = FALSE]
                       [] OTHER -> [base EXCEPT !.status = 0]
         IN Answer(m, resp)
  /\ UNCHANGED <<phase, page, sessionVars, authVars, homeVars, chatVars, srvVars, formVars>>

\* ------------------------------------------------------ task list of Home
\* The authenticated view of Home is rendered (form, list, logout button).
HomeActive == phase = "ready" /\ page = "home" /\ IsAuthenticated

Ids(ts) == {ts[i].id : i \in 1..Len(ts)}

TaskRequest(op, id, title, st) ==
  [Msg("req", "task", op) EXCEPT !.id = id, !.title = title, !.auth = AuthHeader(st)]

CreatesInFlight ==
  LET creates == {m \in Requests : m.op = "createTask"}
  IN IF creates = {} THEN 0
     ELSE LET Sum[S \in SUBSET creates] ==
                IF S = {} THEN 0
                ELSE LET m == CHOOSE x \in S : TRUE
                     IN CopiesIn(m, net) + Sum[S \ {m}]
          IN Sum[creates]

\* The user types raw into the empty TaskForm and submits it:
\* TaskForm.handleSubmit followed by handleCreateTask up to its await.
TaskFormSubmit(raw) ==
  /\ HomeActive
  /\ IF Trim(raw) # <<>>
     THEN /\ CanSend
          /\ nextId + CreatesInFlight <= MaxId
          /\ Send(TaskRequest("createTask", 0, Trim(raw), storage))
     ELSE UNCHANGED netVars
  /\ UNCHANGED <<phase, page, sessionVars, authVars, homeVars, chatVars, srvVars, formVars>>

\* The title field of TaskForm: onChange -> setTitle.
SetTitle(raw) ==
  /\ HomeActive
  /\ formTitle' = raw
  /\ UNCHANGED <<phase, page, sessionVars, authVars, homeVars, chatVars, netVars, srvVars,
                 editor, clicks>>

\* TaskForm.handleSubmit sending the title whatever it holds.
TaskFormHandleSubmit_NoTrimGuard ==
  /\ HomeActive
  /\ clicks' = [clicks EXCEPT !.submit = 1 - @]
  /\ CanSend
  /\ nextId + CreatesInFlight <= MaxId
  /\ Send(TaskRequest("createTask", 0, Trim(formTitle), storage))
  /\ formTitle' = <<>>
  /\ UNCHANGED <<phase, page, sessionVars, authVars, homeVars, chatVars, srvVars, editor>>

\* TaskForm.handleSubmit on the title the form holds, followed by
\* handleCreateTask up to its await.
TaskFormHandleSubmit ==
  /\ HomeActive
  /\ clicks' = [clicks EXCEPT !.submit = 1 - @]
  /\ IF Trim(formTitle) # <<>>
     THEN /\ CanSend
          /\ nextId + CreatesInFlight <= MaxId
          /\ Send(TaskRequest("createTask", 0, Trim(formTitle), storage))
          /\ formTitle' = <<>>
     ELSE UNCHANGED <<netVars, formTitle>>
  /\ UNCHANGED <<phase, page, sessionVars, authVars, homeVars, chatVars, srvVars, editor>>

\* handleCreateTask after the await.
CreateTaskDone(r) ==
  /\ r \in Responses
  /\ r.op = "createTask"
  /\ Receive(r)
  /\ storage' = StorageAfterResponse(r, storage)
  /\ expired' = (expired \/ r.status = 401)
  /\ IF ResponseOk(r)
     THEN /\ tasks' = <<r.body[1]>> \o tasks
          /\ message' = Banner("success", <<"Task created successfully">>)
          /\ hist' = [hist EXCEPT !.created = @ \cup {r.body[1].id},
                                  !.createdSince = @ \cup {r.body[1].id}]
     ELSE /\ message' = Banner("error", ApiRequestError(r))
          /\ UNCHANGED <<tasks, hist>>
  /\ UNCHANGED <<phase, page, token, user, isInitialized, authVars, loading, chatVars, srvVars, formVars>>

\* loadTasks keeping the entries it already had in front of the loaded ones.
LoadTasksDone_Merge(r) ==
  /\ r \in Responses
  /\ r.op = "getTasks"
  /\ Receive(r)
  /\ storage' = StorageAfterResponse(r, storage)
  /\ expired' = (expired \/ r.status = 401)
  /\ IF ResponseOk(r)
     THEN /\ tasks' = tasks \o r.body
          /\ hist' = [hist EXCEPT !.ok = TRUE, !.loaded = Ids(r.body),
                                  !.createdSince = {}, !.deletedSince = {}]
          /\ UNCHANGED message
     ELSE /\ message' = Banner("error", ApiRequestError(r))
          /\ UNCHANGED <<tasks, hist>>
  /\ loading' = FALSE
  /\ UNCHANGED <<phase, page, token, user, isInitialized, authVars, chatVars, srvVars, formVars>>

\* loadTasks after the await.
LoadTasksDone(r) ==
  /\ r \in Responses
  /\ r.op = "getTasks"
  /\ Receive(r)
  /\ storage' = StorageAfterResponse(r, storage)
  /\ expired' = (expired \/ r.status = 401)
  /\ IF ResponseOk(r)
     THEN /\ tasks' = r.body
          /\ hist' = [hist EXCEPT !.ok = TRUE, !.loaded = Ids(r.body),
                                  !.createdSince = {}, !.deletedSince = {}]
          /\ UNCHANGED message
     ELSE /\ message' = Banner("error", ApiRequestError(r))
          /\ UNCHANGED <<tasks, hist>>
  /\ loading' = FALSE
  /\ UNCHANGED <<phase, page, token, user, isInitialized, authVars, chatVars, srvVars, formVars>>

\* A TaskItem for id is on screen: the list is rendered and holds the id.
ItemShown(id) == HomeActive /\ ~loading /\ id \in Ids(tasks)

\* handleDeleteTask removing the entry before the call resolves.
HandleDeleteTask_Optimistic(id) ==
  /\ ItemShown(id)
  /\ CanSend
  /\ Send(TaskRequest("deleteTask", id, <<>>, storage))
  /\ tasks' = SelectSeq(tasks, LAMBDA t : t.id # id)
  /\ UNCHANGED <<phase, page, sessionVars, authVars, loading, message, hist, chatVars, srvVars, formVars>>

\* ConfirmModal.handleConfirm -> confirmDelete -> handleDeleteTask up to its await.
HandleDeleteTask(id) ==
  /\ ItemShown(id)
  /\ CanSend
  /\ Send(TaskRequest("deleteTask", id, <<>>, storage))
  /\ UNCHANGED <<phase, page, sessionVars, authVars, homeVars, chatVars, srvVars, formVars>>

\* handleDeleteTask issuing the request again when the call fails.
DeleteTaskDone_Retry(r) ==
  /\ r \in Responses
  /\ r.op = "deleteTask"
  /\ storage' = StorageAfterResponse(r, storage)
  /\ expired' = (expired \/ r.status = 401)
  /\ IF ResponseOk(r)
     THEN /\ Receive(r)
          /\ tasks' = SelectSeq(tasks, LAMBDA t : t.id # r.id)
          /\ message' = Banner("success", <<"Task deleted">>)
          /\ hist' = [hist EXCEPT !.deleted = @ \cup {r.id},
                                  !.deletedSince = @ \cup {r.id}]
     ELSE /\ ReceiveAndSend(r, TaskRequest("deleteTask", r.id, <<>>, storage'))
          /\ message' = Banner("error", ApiRequestError(r))
          /\ UNCHANGED <<tasks, hist>>
  /\ UNCHANGED <<phase, page, token, user, isInitialized, authVars, loading, chatVars, srvVars, formVars>>

\* handleDeleteTask after the await.
DeleteTaskDone(r) ==
  /\ r \in Responses
  /\ r.op = "deleteTask"
  /\ Receive(r)
  /\ storage' = StorageAfterResponse(r, storage)
  /\ expired' = (expired \/ r.status = 401)
  /\ IF ResponseOk(r)
     THEN /\ tasks' = SelectSeq(tasks, LAMBDA t : t.id # r.id)
          /\ message' = Banner("success", <<"Task deleted">>)
          /\ hist' = [hist EXCEPT !.deleted = @ \cup {r.id},
                                  !.deletedSince = @ \cup {r.id}]
     ELSE /\ message' = Banner("error", ApiRequestError(r))
          /\ UNCHANGED <<tasks, hist>>
  /\ UNCHANGED <<phase, page, token, user, isInitialized, authVars, loading, chatVars, srvVars, formVars>>

\* ReplaceById moving the updated entry to the head of the list.
ReplaceById_MoveToFront(ts, id, updatedTask) ==
  IF id \in Ids(ts)
  THEN <<updatedTask>> \o SelectSeq(ts, LAMBDA t : t.id # id)
  ELSE ts

\* ReplaceById adding the updated task when no entry has its id.
ReplaceById_Upsert(ts, id, updatedTask) ==
  IF id \in Ids(ts)
  THEN [i \in 1..Len(ts) |-> IF ts[i].id = id THEN updatedTask ELSE ts[i]]
  ELSE Append(ts, updatedTask)

\* prev.map((task) => (task.id === id ? updatedTask : task))
ReplaceById(ts, id, updatedTask) ==
  [i \in 1..Len(ts) |-> IF ts[i].id = id THEN updatedTask ELSE ts[i]]

\* The checkbox of a TaskItem -> handleToggleTask up to its await.
HandleToggleTask(id) ==
  /\ ItemShown(id)
  /\ CanSend
  /\ Send(TaskRequest("toggleTask", id, <<>>, storage))
  /\ UNCHANGED <<phase, page, sessionVars, authVars, homeVars, chatVars, srvVars, formVars>>

\* handleToggleTask dropping the entry when the call fails.
ToggleTaskDone_DropOnFailure(r) ==
  /\ r \in Responses
  /\ r.op = "toggleTask"
  /\ Receive(r)
  /\ storage' = StorageAfterResponse(r, storage)
  /\ expired' = (expired \/ r.status = 401)
  /\ IF ResponseOk(r)
     THEN /\ tasks' = ReplaceById(tasks, r.id, r.body[1])
          /\ UNCHANGED message
     ELSE /\ message' = Banner("error", ApiRequestError(r))
          /\ tasks' = SelectSeq(tasks, LAMBDA t : t.id # r.id)
  /\ UNCHANGED <<phase, page, token, user, isInitialized, authVars, loading, hist, chatVars, srvVars, formVars>>

\* handleToggleTask after the await.
ToggleTaskDone(r) ==
  /\ r \in Responses
  /\ r.op = "toggleTask"
  /\ Receive(r)
  /\ storage' = StorageAfterResponse(r, storage)
  /\ expired' = (expired \/ r.status = 401)
  /\ IF ResponseOk(r)
     THEN /\ tasks' = ReplaceById(tasks, r.id, r.body[1])
          /\ UNCHANGED message
     ELSE /\ message' = Banner("error", ApiRequestError(r))
          /\ UNCHANGED tasks
  /\ UNCHANGED <<phase, page, token, user, isInitialized, authVars, loading, hist, chatVars, srvVars, formVars>>

\* The user edits the title of item id to raw and saves:
\* TaskItem.handleSave followed by handleUpdateTask up to its await.
HandleUpdateTask(id, raw) ==
  /\ ItemShown(id)
  /\ IF Trim(raw) # <<>>
     THEN /\ CanSend
          /\ Send(TaskRequest("updateTask", id, Trim(raw), storage))
     ELSE UNCHANGED netVars
  /\ UNCHANGED <<phase, page, sessionVars, authVars, homeVars, chatVars, srvVars, formVars>>

\* The title of the task id in the list on screen.
TitleOf(id) == (CHOOSE t \in {tasks[i] : i \in 1..Len(tasks)} : t.id = id).title

\* State of the TaskItem the user works on: isEditing and editTitle.  One
\* item is edited at a time; the record of an item that has left the list is
\* dead (every handler below requires the item on screen, ids are not reused).
Editing == editor # Null /\ editor[1].isEditing /\ ItemShown(editor[1].id)

\* The pencil button of a TaskItem: setIsEditing(true).  editTitle is the
\* state the item holds: task.title when it was mounted, or what an earlier
\* edit left.
StartEdit(id) ==
  /\ ItemShown(id)
  /\ ~Editing
  /\ IF editor # Null /\ editor[1].id = id
     THEN editor' = Some([editor[1] EXCEPT !.isEditing = TRUE])
     ELSE /\ editor = Null
          /\ editor' = Some([id |-> id, isEditing |-> TRUE, editTitle |-> TitleOf(id)])
  /\ UNCHANGED <<phase, page, sessionVars, authVars, homeVars, chatVars, netVars, srvVars,
                 formTitle, clicks>>

\* The title field of the item in edit mode: onChange -> setEditTitle.
SetEditTitle(raw) ==
  /\ Editing
  /\ editor' = Some([editor[1] EXCEPT !.editTitle = raw])
  /\ UNCHANGED <<phase, page, sessionVars, authVars, homeVars, chatVars, netVars, srvVars,
                 formTitle, clicks>>

\* TaskItem.handleSave leaving edit mode whatever editTitle holds.
HandleSave_LeavesEditMode ==
  /\ Editing
  /\ clicks' = [clicks EXCEPT !.save = 1 - @]
  /\ editor' = Some([editor[1] EXCEPT !.isEditing = FALSE])
  /\ IF Trim(editor[1].editTitle) # <<>>
     THEN /\ CanSend
          /\ Send(TaskRequest("updateTask", editor[1].id, Trim(editor[1].editTitle), storage))
     ELSE UNCHANGED netVars
  /\ UNCHANGED <<phase, page, sessionVars, authVars, homeVars, chatVars, srvVars, formTitle>>

\* TaskItem.handleSave followed by handleUpdateTask up to its await.
HandleSave ==
  /\ Editing
  /\ clicks' = [clicks EXCEPT !.save = 1 - @]
  /\ IF Trim(editor[1].editTitle) # <<>>
     THEN /\ CanSend
          /\ Send(TaskRequest("updateTask", editor[1].id, Trim(editor[1].editTitle), storage))
          /\ editor' = Some([editor[1] EXCEPT !.isEditing = FALSE])
     ELSE UNCHANGED <<netVars, editor>>
  /\ UNCHANGED <<phase, page, sessionVars, authVars, homeVars, chatVars, srvVars, formTitle>>

\* TaskItem.handleCancel
HandleCancel ==
  /\ Editing
  /\ editor' = Some([editor[1] EXCEPT !.isEditing = FALSE, !.editTitle = TitleOf(editor[1].id)])
  /\ UNCHANGED <<phase, page, sessionVars, authVars, homeVars, chatVars, netVars, srvVars,
                 formTitle, clicks>>

\* handleUpdateTask after the await.
UpdateTaskDone(r) ==
  /\ r \in Responses
  /\ r.op = "updateTask"
  /\ Receive(r)
  /\ storage' = StorageAfterResponse(r, storage)
  /\ expired' = (expired \/ r.status = 401)
  /\ IF ResponseOk(r)
     THEN /\ tasks' = ReplaceById(tasks, r.id, r.body[1])
          /\ message' = Banner("success", <<"Task updated">>)
     ELSE /\ message' = Banner("error", ApiRequestError(r))
          /\ UNCHANGED tasks
  /\ UNCHANGED <<phase, page, token, user, isInitialized, authVars, loading, hist, chatVars, srvVars, formVars>>

\* ------------------------------------------------------- backend: /tasks
RECURSIVE SortedById(_)
SortedById(S) ==
  IF S = {} THEN <<>>
  ELSE LET first == CHOOSE t \in S : \A u \in S : t.id <= u.id
       IN <<first>> \o SortedById(S \ {first})

Fail(m, status) ==
  [m EXCEPT !.kind = "resp", !.status = status, !.statusText = StatusText(status)]

Ok(m, body) ==
  [m EXCEPT !.kind = "resp", !.status = 200, !.statusText = StatusText(200), !.body = body]

\* The task endpoints answer a request whose bearer token they accept.
TaskServerOk(m) ==
  /\ m \in Requests
  /\ m.api = "task"
  /\ m.auth # Null
  /\ LET found == {t \in srvTasks : t.id = m.id}
         old == CHOOSE t \in found : TRUE
         new == CASE m.op = "toggleTask" -> [old EXCEPT !.completed = ~old.completed]
                  [] m.op = "updateTask" -> [old EXCEPT !.title = m.title]
                  [] OTHER -> old
     IN CASE m.op = "getTasks" ->
               /\ Answer(m, Ok(m, SortedById(srvTasks)))
               /\ UNCHANGED <<srvTasks, nextId>>
          [] m.op = "createTask" ->
               /\ Answer(m, Ok(m, <<Task(nextId, m.title, FALSE)>>))
               /\ srvTasks' = srvTasks \cup {Task(nextId, m.title, FALSE)}
               /\ nextId' = nextId + 1
          [] OTHER ->
               IF found = {}
               THEN /\ Answer(m, Fail(m, 404))
                    /\ UNCHANGED <<srvTasks, nextId>>
               ELSE /\ Answer(m, Ok(m, IF m.op = "deleteTask" THEN <<>> ELSE <<new>>))
                    /\ srvTasks' = IF m.op = "deleteTask"
                                   THEN srvTasks \ {old}
                                   ELSE (srvTasks \ {old}) \cup {new}
                    /\ UNCHANGED nextId
  /\ UNCHANGED <<phase, page, sessionVars, authVars, homeVars, chatVars, nextConv, srvMsgs, formVars>>

\* The backend refuses a task or chat request (401: token missing, expired
\* or rejected; 500: internal error), or the exchange fails in transport.
ServerRefuses(m, status, detail) ==
  /\ m \in Requests
  /\ m.api \in {"task", "chat"}
  /\ status \in {0, 401, 500}
  /\ detail \in {Null, Some(""), Some("Conversation not found")}
  /\ detail # Null => status = 500
  /\ Answer(m, [Fail(m, status) EXCEPT !.detail = detail])
  /\ UNCHANGED <<phase, page, sessionVars, authVars, homeVars, chatVars, srvVars, formVars>>

\* ------------------------------------------------------------------- chat
ChatMessage(role, content) == [role |-> role, content |-> content]

\* JavaScript truthiness of a nullable number: null and 0 are falsy.
TruthyNum(opt) == opt # Null /\ opt[1] # 0

\* getUserId falling back to a user id when none is stored.
GetUserId_Default(st) ==
  IF st.user # Null /\ JSONparses(st.user[1]) /\ JSONparse(st.user[1]).id # ""
  THEN Some(JSONparse(st.user[1]).id)
  ELSE Some("u1")

\* chatApi.getUserId: the id of the user kept in localStorage, or null.
GetUserId(st) ==
  IF st.user # Null /\ JSONparses(st.user[1]) /\ JSONparse(st.user[1]).id # ""
  THEN Some(JSONparse(st.user[1]).id)
  ELSE Null

UserNotAuthenticatedText == <<"User not authenticated">>

\* chatApi.sendMessage: the request it hands to authFetch.
ChatRequest(text, convId, st) ==
  [Msg("req", "chat", "sendMessage") EXCEPT
     !.text = text,
     !.conv = IF TruthyNum(convId) THEN convId ELSE Null,
     !.ctx = convId,
     !.auth = AuthHeader(st)]

GetConversationsRequest(st) ==
  [Msg("req", "chat", "getConversations") EXCEPT !.auth = AuthHeader(st)]

\* Message of the error thrown by authFetch for a response that is not ok.
AuthFetchError(r) ==
  IF r.status = 0 THEN FailedToFetchText
  ELSE IF r.status = 401 THEN AuthExpiredText
  ELSE IF Truthy(r.detail) THEN <<r.detail[1]>>
  ELSE ApiErrorText(r.statusText)

\* The "AI Chat" button of Home mounts Chat, whose effect calls
\* loadConversations.
OpenChat ==
  /\ HomeActive
  /\ ~showChat
  /\ showChat' = TRUE
  /\ IF GetUserId(storage) # Null
     THEN SendAuto(GetConversationsRequest(storage))
     ELSE UNCHANGED netVars
  /\ UNCHANGED <<phase, page, sessionVars, authVars, homeVars, messages, input,
                 chatLoading, conversationId, conversations, submits, assigned, srvVars, formVars>>

\* loadConversations after the await.
LoadConversationsDone(r) ==
  /\ r \in Responses
  /\ r.op = "getConversations"
  /\ Receive(r)
  /\ storage' = StorageAfterResponse(r, storage)
  /\ expired' = (expired \/ r.status = 401)
  /\ conversations' = IF ResponseOk(r) THEN r.convs ELSE conversations
  /\ UNCHANGED <<phase, page, token, user, isInitialized, authVars, homeVars,
                 messages, input, chatLoading, conversationId, showChat, submits, assigned,
                 srvVars, formVars>>

\* onChange of the chat input.
SetInput(raw) ==
  /\ HomeActive
  /\ showChat
  /\ input' = raw
  /\ UNCHANGED <<phase, page, sessionVars, authVars, homeVars, messages,
                 chatLoading, conversationId, conversations, showChat, submits, assigned,
                 netVars, srvVars, formVars>>

\* Value of assigned while the response of an earlier thread is awaited.
Detached == <<-1>>

\* assigned after the user has left the thread (startNewChat, loadConversation).
LeaveThread ==
  IF \E m \in BagToSet(net) : m.op = "sendMessage" THEN Detached ELSE Null

\* startNewChat leaving the conversation id as it is.
StartNewChat_KeepsId ==
  /\ HomeActive
  /\ showChat
  /\ messages' = <<>>
  /\ assigned' = LeaveThread
  /\ UNCHANGED <<phase, page, sessionVars, authVars, homeVars, input, conversationId,
                 chatLoading, conversations, showChat, submits, netVars, srvVars, formVars>>

\* startNewChat
StartNewChat ==
  /\ HomeActive
  /\ showChat
  /\ messages' = <<>>
  /\ conversationId' = Null
  /\ assigned' = LeaveThread
  /\ UNCHANGED <<phase, page, sessionVars, authVars, homeVars, input,
                 chatLoading, conversations, showChat, submits, netVars, srvVars, formVars>>

\* chatApi.getConversationMessages: the request it hands to authFetch.
GetConversationMessagesRequest(convId, st) ==
  [Msg("req", "chat", "getConversationMessages") EXCEPT !.id = convId, !.auth = AuthHeader(st)]

\* A conversation of the sidebar is clicked: loadConversation up to its
\* await.  chatApi.getConversationMessages throws before any request is made
\* when no user id is stored; the catch block only logs.
LoadConversation(convId) ==
  /\ HomeActive
  /\ showChat
  /\ \E i \in 1..Len(conversations) : conversations[i] = convId
  /\ IF GetUserId(storage) # Null
     THEN /\ CanSend
          /\ Send(GetConversationMessagesRequest(convId, storage))
     ELSE UNCHANGED netVars
  /\ UNCHANGED <<phase, page, sessionVars, authVars, homeVars, chatVars, srvVars, formVars>>

\* msgs.map(m => ({role, content, created_at}))
ToChatMessages(msgs) ==
  [i \in 1..Len(msgs) |-> [role |-> msgs[i].role, content |-> msgs[i].content]]

\* loadConversation adopting the id even when the call failed.
LoadConversationDone_AdoptOnFailure(r) ==
  /\ r \in Responses
  /\ r.op = "getConversationMessages"
  /\ Receive(r)
  /\ storage' = StorageAfterResponse(r, storage)
  /\ expired' = (expired \/ r.status = 401)
  /\ conversationId' = Some(r.id)
  /\ IF ResponseOk(r)
     THEN /\ messages' = ToChatMessages(r.msgs)
          /\ assigned' = LeaveThread
     ELSE UNCHANGED <<messages, assigned>>
  /\ UNCHANGED <<phase, page, token, user, isInitialized, authVars, homeVars, input,
                 chatLoading, conversations, showChat, submits, srvVars, formVars>>

\* loadConversation after the await.
LoadConversationDone(r) ==
  /\ r \in Responses
  /\ r.op = "getConversationMessages"
  /\ Receive(r)
  /\ storage' = StorageAfterResponse(r, storage)
  /\ expired' = (expired \/ r.status = 401)
  /\ IF ResponseOk(r)
     THEN /\ messages' = ToChatMessages(r.msgs)
          /\ conversationId' = Some(r.id)
          /\ assigned' = LeaveThread
     ELSE UNCHANGED <<messages, conversationId, assigned>>
  /\ UNCHANGED <<phase, page, token, user, isInitialized, authVars, homeVars, input,
                 chatLoading, conversations, showChat, submits, srvVars, formVars>>

\* handleSubmit testing input instead of input.trim() in its guard.
HandleSubmit_NoTrimGuard ==
  /\ HomeActive
  /\ showChat
  /\ submits' = 1 - submits
  /\ IF input = <<>> \/ chatLoading
     THEN UNCHANGED <<messages, input, chatLoading, netVars>>
     ELSE /\ Len(messages) + 2 <= MaxMsgs
          /\ input' = <<>>
          /\ IF GetUserId(storage) = Null
             THEN /\ messages' = messages \o <<ChatMessage("user", Trim(input)),
                                                ChatMessage("assistant", UserNotAuthenticatedText)>>
                  /\ chatLoading' = FALSE
                  /\ UNCHANGED netVars
             ELSE /\ CanSend
                  /\ messages' = Append(messages, ChatMessage("user", Trim(input)))
                  /\ chatLoading' = TRUE
                  /\ Send(ChatRequest(Trim(input), conversationId, storage))
  /\ UNCHANGED <<phase, page, sessionVars, authVars, homeVars, conversationId,
                 conversations, showChat, assigned, srvVars, formVars>>

\* handleSubmit without the test of loading in its guard.
HandleSubmit_NoLoadingGuard ==
  /\ HomeActive
  /\ showChat
  /\ submits' = 1 - submits
  /\ IF Trim(input) = <<>>
     THEN UNCHANGED <<messages, input, chatLoading, netVars>>
     ELSE /\ Len(messages) + 2 <= MaxMsgs
          /\ input' = <<>>
          /\ IF GetUserId(storage) = Null
             THEN /\ messages' = messages \o <<ChatMessage("user", Trim(input)),
                                                ChatMessage("assistant", <<"User not authenticated">>)>>
                  /\ chatLoading' = FALSE
                  /\ UNCHANGED netVars
             ELSE /\ CanSend
                  /\ messages' = Append(messages, ChatMessage("user", Trim(input)))
                  /\ chatLoading' = TRUE
                  /\ net' = net (+) SetToBag({[Msg("req", "chat", "sendMessage") EXCEPT
                                                 !.text = Trim(input),
                                                 !.conv = IF conversationId # Null /\ conversationId[1] # 0
                                                          THEN conversationId ELSE Null,
                                                 !.ctx = conversationId,
                                                 !.auth = AuthHeader(storage)]})
                  /\ issued' = issued + 1
  /\ UNCHANGED <<phase, page, sessionVars, authVars, homeVars, conversationId,
                 conversations, showChat, assigned, srvVars, formVars>>

\* handleSubmit up to its await.  chatApi.sendMessage throws before any
\* request is made when no user id is stored; the catch and finally blocks
\* then run in the same turn.
HandleSubmit ==
  /\ HomeActive
  /\ showChat
  /\ submits' = 1 - submits
  /\ IF Trim(input) = <<>> \/ chatLoading
     THEN UNCHANGED <<messages, input, chatLoading, netVars>>
     ELSE /\ Len(messages) + 2 <= MaxMsgs
          /\ input' = <<>>
          /\ IF GetUserId(storage) = Null
             THEN /\ messages' = messages \o <<ChatMessage("user", Trim(input)),
                                                ChatMessage("assistant", UserNotAuthenticatedText)>>
                  /\ chatLoading' = FALSE
                  /\ UNCHANGED netVars
             ELSE /\ CanSend
                  /\ messages' = Append(messages, ChatMessage("user", Trim(input)))
                  /\ chatLoading' = TRUE
                  /\ Send(ChatRequest(Trim(input), conversationId, storage))
  /\ UNCHANGED <<phase, page, sessionVars, authVars, homeVars, conversationId,
                 conversations, showChat, assigned, srvVars, formVars>>

\* assigned after the response r of a send has been applied.
AssignedAfter(r) ==
  IF assigned = Detached THEN Null
  ELSE IF ResponseOk(r) /\ r.conv = Null THEN r.convs
  ELSE assigned

\* handleSubmit leaving loading set when the call failed.
HandleSubmitDone_KeepsLoadingOnFailure(r) ==
  /\ r \in Responses
  /\ r.op = "sendMessage"
  /\ storage' = StorageAfterResponse(r, storage)
  /\ expired' = (expired \/ r.status = 401)
  /\ assigned' = AssignedAfter(r)
  /\ IF ResponseOk(r)
     THEN /\ messages' = Append(messages, ChatMessage("assistant", r.text))
          /\ chatLoading' = FALSE
          /\ IF ~TruthyNum(r.ctx) /\ TruthyNum(r.convs)
             THEN /\ conversationId' = r.convs
                  /\ IF GetUserId(storage') # Null
                     THEN ReceiveAndSend(r, GetConversationsRequest(storage'))
                     ELSE Receive(r)
             ELSE /\ Receive(r)
                  /\ UNCHANGED conversationId
     ELSE /\ messages' = Append(messages, ChatMessage("assistant", AuthFetchError(r)))
          /\ Receive(r)
          /\ UNCHANGED <<conversationId, chatLoading>>
  /\ UNCHANGED <<phase, page, token, user, isInitialized, authVars, homeVars, input,
                 conversations, showChat, submits, srvVars, formVars>>

\* handleSubmit after the await.  r.ctx is the conversationId of the render
\* that submitted (the value the handler's closure holds).
HandleSubmitDone(r) ==
  /\ r \in Responses
  /\ r.op = "sendMessage"
  /\ storage' = StorageAfterResponse(r, storage)
  /\ expired' = (expired \/ r.status = 401)
  /\ chatLoading' = FALSE
  /\ assigned' = AssignedAfter(r)
  /\ IF ResponseOk(r)
     THEN /\ messages' = Append(messages, ChatMessage("assistant", r.text))
          /\ IF ~TruthyNum(r.ctx) /\ TruthyNum(r.convs)
             THEN /\ conversationId' = r.convs
                  /\ IF GetUserId(storage') # Null
                     THEN ReceiveAndSend(r, GetConversationsRequest(storage'))
                     ELSE Receive(r)
             ELSE /\ Receive(r)
                  /\ UNCHANGED conversationId
     ELSE /\ messages' = Append(messages, ChatMessage("assistant", AuthFetchError(r)))
          /\ Receive(r)
          /\ UNCHANGED conversationId
  /\ UNCHANGED <<phase, page, token, user, isInitialized, authVars, homeVars, input,
                 conversations, showChat, submits, srvVars, formVars>>

\* ------------------------------------------------- backend: /api/{id}/chat
\* The chat endpoint answers a message: it opens a conversation when the
\* request names none and returns the conversation's id with the reply.
\* The response keeps the request's conv field (the handler's closure) and
\* carries the returned conversation_id in convs.
ChatServerOk(m) ==
  /\ m \in Requests
  /\ m.op = "sendMessage"
  /\ m.auth # Null
  /\ IF m.conv = Null
     THEN /\ nextConv <= MaxConv
          /\ nextConv' = nextConv + 1
          /\ srvMsgs' = srvMsgs \o <<StoredMessage(nextConv, "user", m.text),
                                     StoredMessage(nextConv, "assistant", ReplyText)>>
          /\ Answer(m, [Ok(m, <<>>) EXCEPT !.text = ReplyText, !.convs = <<nextConv>>])
     ELSE /\ srvMsgs' = srvMsgs \o <<StoredMessage(m.conv[1], "user", m.text),
                                     StoredMessage(m.conv[1], "assistant", ReplyText)>>
          /\ Answer(m, [Ok(m, <<>>) EXCEPT !.text = ReplyText, !.convs = m.conv])
          /\ UNCHANGED nextConv
  /\ UNCHANGED <<phase, page, sessionVars, authVars, homeVars, chatVars, srvTasks, nextId, formVars>>

\* The messages endpoint returns the stored messages of a conversation of
\* the user in the order they were stored.
ConversationMessagesServerOk(m) ==
  /\ m \in Requests
  /\ m.op = "getConversationMessages"
  /\ m.auth # Null
  /\ m.id < nextConv
  /\ Answer(m, [Ok(m, <<>>) EXCEPT
                  !.msgs = SelectSeq(srvMsgs, LAMBDA sm : sm.conversation_id = m.id)])
  /\ UNCHANGED <<phase, page, sessionVars, authVars, homeVars, chatVars, srvVars, formVars>>

RECURSIVE UpTo(_)
UpTo(n) == IF n = 0 THEN <<>> ELSE Append(UpTo(n - 1), n - 1)

\* The conversations endpoint lists the user's conversations.
ConversationsServerOk(m) ==
  /\ m \in Requests
  /\ m.op = "getConversations"
  /\ m.auth # Null
  /\ Answer(m, [Ok(m, <<>>) EXCEPT !.convs = UpTo(nextConv)])
  /\ UNCHANGED <<phase, page, sessionVars, authVars, homeVars, chatVars, srvVars, formVars>>

\* ---------------------------------------------------------- specifications
InNet == BagToSet(net)

Details == {Null, Some(""), Some("Conversation not found")}

Startup(pages) == (\E p \in pages : MountEffects(p)) \/ CommitInitialState

SessionActions ==
  \/ Reload
  \/ \E mode \in {"login", "signup"} : AuthFormSubmit(mode)
  \/ \E m \in InNet : AuthServer(m)
  \/ \E r \in InNet : AuthResponse(r)
  \/ Logout

TaskActions ==
  \/ \E raw \in RawTexts : TaskFormSubmit(raw)
  \/ \E id \in 1..MaxId : HandleDeleteTask(id)
  \/ \E id \in 1..MaxId : HandleToggleTask(id)
  \/ \E id \in 1..MaxId, raw \in RawTexts : HandleUpdateTask(id, raw)
  \/ \E r \in InNet : CreateTaskDone(r)
  \/ \E r \in InNet : DeleteTaskDone(r)
  \/ \E r \in InNet : ToggleTaskDone(r)
  \/ \E r \in InNet : UpdateTaskDone(r)

\* The task form and the editor of a task item, field by field.
FormActions ==
  \/ \E raw \in RawTexts : SetTitle(raw)
  \/ TaskFormHandleSubmit
  \/ \E id \in 1..MaxId : StartEdit(id)
  \/ \E raw \in RawTexts : SetEditTitle(raw)
  \/ HandleSave
  \/ HandleCancel
  \/ \E r \in InNet : CreateTaskDone(r)
  \/ \E r \in InNet : UpdateTaskDone(r)

LoadActions(statuses) ==
  \/ \E r \in InNet : LoadTasksDone(r)
  \/ \E m \in InNet : TaskServerOk(m)
  \/ \E m \in InNet, status \in statuses, detail \in Details :
        ServerRefuses(m, status, detail)

ChatActions ==
  \/ OpenChat
  \/ \E raw \in RawTexts : SetInput(raw)
  \/ StartNewChat
  \/ HandleSubmit
  \/ \E r \in InNet : HandleSubmitDone(r)
  \/ \E r \in InNet : LoadConversationsDone(r)
  \/ \E m \in InNet : ChatServerOk(m)
  \/ \E m \in InNet : ConversationsServerOk(m)

\* The sidebar of the chat panel.
ConversationActions ==
  \/ \E convId \in 0..MaxConv : LoadConversation(convId)
  \/ \E r \in InNet : LoadConversationDone(r)
  \/ \E m \in InNet : ConversationMessagesServerOk(m)

\* The whole front end.
Next ==
  \/ Startup(Pages)
  \/ SessionActions
  \/ LoadActions({0, 401, 500})
  \/ TaskActions
  \/ ChatActions
  \/ ConversationActions
  \/ FormActions
Spec == Init /\ [][Next]_vars

\* The task form and the item editor of the home page.
NextForms == Startup({"home"}) \/ LoadActions({0, 500}) \/ FormActions
SpecForms == Init /\ [][NextForms]_vars

\* The session store with the pages that drive it.
NextSession == Startup(Pages) \/ SessionActions \/ LoadActions({0, 401, 500})
SpecSession == Init /\ [][NextSession]_vars

\* The home page's task list.
NextTasks == Startup({"home"}) \/ LoadActions({0, 401, 500}) \/ TaskActions
SpecTasks == Init /\ [][NextTasks]_vars

\* The chat panel of the home page, opened once the task list has loaded.
NextChat ==
  \/ Startup({"home"})
  \/ LoadActions({0, 401, 500})
  \/ (~loading /\ ChatActions)
  \/ (~loading /\ ConversationActions)
SpecChat == Init /\ [][NextChat]_vars

\* The home page: task list and chat panel.
NextHome ==
  \/ Startup({"home"})
  \/ LoadActions({0, 401, 500})
  \/ TaskActions
  \/ (~loading /\ ChatActions)
SpecHome == Init /\ [][NextHome]_vars

\* The session store together with the task list.
NextApp == Startup(Pages) \/ SessionActions \/ LoadActions({401, 500}) \/ TaskActions
SpecApp == Init /\ [][NextApp]_vars

\* ------------------------------------------------------------- properties
\* The response r is taken off the network by this step (a handler resumes).
Consumed(r) == CopiesIn(r, net) > CopiesIn(r, net')
\* The message m is put on the network by this step.
Added(m) == CopiesIn(m, net') > CopiesIn(m, net)

Quiescent == phase = "ready" /\ net = EmptyBag

\* C1: the local task collection never holds two entries with the same id,
\* whatever the interleaving of loadTasks and the mutations.
C1_UniqueIds ==
  \A i, j \in 1..Len(tasks) : tasks[i].id = tasks[j].id => i = j

\* C2: issuing a delete leaves the collection alone; an id leaves the
\* collection only in the step that resumes with a successful DELETE for it
\* (or that applies a loadTasks response); a failed DELETE leaves the
\* collection unchanged and sets an error banner.
C2_DeleteAfterConfirmation ==
  [][/\ (\E m \in BagToSet(net') :
           m.kind = "req" /\ m.op = "deleteTask" /\ Added(m)) => tasks' = tasks
     /\ \A r \in Responses :
          (r.op = "deleteTask" /\ Consumed(r)) =>
             IF r.status = 200
             THEN tasks' = SelectSeq(tasks, LAMBDA t : t.id # r.id)
             ELSE tasks' = tasks /\ message'.type = "error" /\ message'.text # <<>>
     /\ \A id \in Ids(tasks) \ Ids(tasks') :
          \E r \in Responses :
            /\ Consumed(r)
            /\ \/ r.op = "deleteTask" /\ r.id = id /\ r.status = 200
               \/ r.op = "getTasks" /\ r.status = 200]_vars

C2_Witness ==
  /\ message = Banner("success", <<"Task deleted">>)
  /\ hist.deleted # {}
  /\ hist.deleted \cap Ids(tasks) = {}

\* Number of chat sends (request or response) on the network.
SendsInFlight ==
  LET sends == {m \in BagToSet(net) : m.op = "sendMessage"}
  IN BagCardinality([m \in sends |-> net[m]])

\* C3: at most one chat send is in flight, and it is in flight only while
\* loading is set; while loading is set no step issues a send, and a submit
\* issues no request and leaves the transcript as it is.
C3_SingleFlight ==
  [][/\ SendsInFlight' <= 1
     /\ SendsInFlight' = 1 => chatLoading'
     /\ chatLoading =>
          /\ SendsInFlight' <= SendsInFlight
          /\ submits' # submits => (messages' = messages /\ net' = net)]_vars

C3_Witness ==
  /\ chatLoading
  /\ SendsInFlight = 1
  /\ Trim(input) # <<>>
  /\ issued < MaxOps
  /\ Len(messages) + 2 <= MaxMsgs

\* C4: once logout() has been called (and until a login or signup
\* succeeds), isAuthenticated is false and both storage keys are absent.
C4_LogoutClears ==
  loggedOut => (~IsAuthenticated /\ storage = EmptyStorage)

\* C5: every task request is issued with a token in the store and carries
\* Authorization: Bearer <that token>, unless a 401 has cleared the stored
\* session since, in which case it carries no Authorization header.
C5_BearerHeader ==
  [][\A m \in BagToSet(net') :
       (m.kind = "req" /\ m.api = "task" /\ Added(m)) =>
          /\ Truthy(token')
          /\ m.auth = IF expired' THEN Null ELSE Bearer(token'[1])]_vars

C5_Witness ==
  \E m \in BagToSet(net) :
    m.kind = "req" /\ m.op = "createTask" /\ m.auth = Bearer("t2") /\ token = Some("t2")

\* C6: isAuthenticated is true exactly when the token is non-null.
C6_AuthIffToken ==
  IsAuthenticated <=> token # Null

\* C7: with no request in flight, the ids of the collection are those of the
\* most recent successful loadTasks plus the creates and minus the deletes
\* confirmed since; no confirmed create is missing and no confirmed delete
\* is back.
C7_ListMatchesConfirmed ==
  (Quiescent /\ hist.ok) =>
     /\ Ids(tasks) = (hist.loaded \cup hist.createdSince) \ hist.deletedSince
     /\ (hist.created \ hist.deleted) \subseteq Ids(tasks)
     /\ hist.deleted \cap Ids(tasks) = {}

\* C8: the two commits of startup leave localStorage as it was found, and
\* the initial load leaves in memory the token that is stored.
C8_SyncAfterInitialLoad ==
  [][/\ phase = "unmounted" => (storage' = storage /\ token' = storage.jwt_token)
     /\ phase = "mounted" => storage' = storage]_vars

C8_Witness ==
  /\ phase = "ready"
  /\ issued = 0
  /\ token = Some("t1")
  /\ storage.jwt_token = Some("t1")
  /\ storage.user # Null

\* The error text reaches the user: the banner for a task call, the last
\* transcript entry for a chat send (loadConversations only logs it).
Surfaces(r, text) ==
  CASE r.api = "task" -> message' = Banner("error", text)
    [] r.op = "sendMessage" ->
         Len(messages') > 0 /\ messages'[Len(messages')] = ChatMessage("assistant", text)
    [] OTHER -> TRUE

\* C9 as stated: a 401 answer to a task or chat request removes both keys
\* and fails with the authentication-expired error; any other non-2xx answer
\* fails with "API Error: <status text>" and leaves the keys alone.
C9_StatusTextOnly ==
  [][\A r \in Responses :
       (Consumed(r) /\ r.api \in {"task", "chat"} /\ r.status \notin {0, 200}) =>
          IF r.status = 401
          THEN storage' = EmptyStorage /\ Surfaces(r, AuthExpiredText)
          ELSE storage' = storage /\ Surfaces(r, <<"API Error: ", r.statusText>>)]_vars

\* C9 amended: as above, except that a chat request whose error body has a
\* non-empty detail fails with that detail instead of the status text.
C9_StatusTextOrDetail ==
  [][\A r \in Responses :
       (Consumed(r) /\ r.api \in {"task", "chat"} /\ r.status \notin {0, 200}) =>
          IF r.status = 401
          THEN storage' = EmptyStorage /\ Surfaces(r, AuthExpiredText)
          ELSE /\ storage' = storage
               /\ IF r.api = "chat" /\ r.detail # Null /\ r.detail[1] # ""
                  THEN Surfaces(r, <<r.detail[1]>>)
                  ELSE Surfaces(r, <<"API Error: ", r.statusText>>)]_vars

C9_Witness ==
  /\ Len(messages) > 0
  /\ messages[Len(messages)] = ChatMessage("assistant", <<"Conversation not found">>)
  /\ storage # EmptyStorage

\* A step of the task or chat client: requests or responses of theirs, and
\* no others, enter or leave the network.
ApiStep ==
  LET changed == {m \in BagToSet(net) \cup BagToSet(net') :
                    CopiesIn(m, net) # CopiesIn(m, net')}
  IN changed # {} /\ \A m \in changed : m.api \in {"task", "chat"}

\* C10 as stated: no step of the task or chat client changes the stored
\* keys or the session in memory.
C10_ClientsNeverMutate ==
  [][ApiStep => (storage' = storage /\ token' = token /\ user' = user)]_vars

\* C10 amended: no step of the task or chat client changes the session in
\* memory, and the only change it makes to the stored keys is to remove
\* both when it resumes with a 401 response.
C10_ClientsOnlyClearOn401 ==
  [][ApiStep =>
       /\ token' = token
       /\ user' = user
       /\ \/ storage' = storage
          \/ /\ storage' = EmptyStorage
             /\ \E r \in Responses : Consumed(r) /\ r.status = 401]_vars

C10_Witness ==
  /\ expired
  /\ storage = EmptyStorage
  /\ token = Some("t1")
  /\ user # Null

\* Text of the error that apiRequest throws for a failed response, by status.
ExpectedErrorText(r) ==
  CASE r.status = 0 -> <<"Failed to fetch">>
    [] r.status = 401 -> <<"Authentication expired. Please login again.">>
    [] r.status = 404 -> <<"API Error: ", "Not Found">>
    [] r.status = 500 -> <<"API Error: ", "Internal Server Error">>
    [] OTHER -> <<>>

\* C11: the step that resumes loadTasks leaves loading false; with a
\* successful response the collection becomes exactly the returned list,
\* with a failed one the collection is unchanged and an error banner is set.
C11_LoadReplaces ==
  [][\A r \in Responses :
       (r.op = "getTasks" /\ Consumed(r)) =>
          /\ loading' = FALSE
          /\ IF r.status = 200
             THEN tasks' = r.body
             ELSE /\ tasks' = tasks
                  /\ message'.type = "error"
                  /\ message'.text = ExpectedErrorText(r)]_vars

\* A successful load was applied over a collection that held a created task
\* the returned list does not contain.
C11_Witness ==
  /\ hist.ok
  /\ ~loading
  /\ hist.created # {}
  /\ hist.createdSince = {}
  /\ hist.created \cap Ids(tasks) = {}

\* C12: the step that resumes a successful toggle or update keeps the length
\* and order of the collection, puts the returned task at every position
\* whose id is the request's id and leaves every other position as it was.
C12_ReplaceInPlace ==
  [][\A r \in Responses :
       (r.op \in {"toggleTask", "updateTask"} /\ Consumed(r) /\ r.status = 200) =>
          /\ Len(tasks') = Len(tasks)
          /\ \A i \in 1..Len(tasks) :
               tasks'[i] = IF tasks[i].id = r.id THEN r.body[1] ELSE tasks[i]]_vars

\* The second of two entries was toggled, the first is as created.
C12_Witness ==
  /\ Len(tasks) = 2
  /\ tasks[1].id = 2 /\ ~tasks[1].completed
  /\ tasks[2].id = 1 /\ tasks[2].completed
  /\ net = EmptyBag

\* C13: with no request in flight, every local entry equals the backend's
\* task of the same id (toggles and updates leave no drift).
C13_NoDrift ==
  Quiescent =>
    \A i \in 1..Len(tasks) :
      \A t \in srvTasks : t.id = tasks[i].id => tasks[i] = t

\* C14: the step that resumes a failed create, toggle or update leaves the
\* collection unchanged and shows the error of the call in the banner.
C14_FailureKeepsList ==
  [][\A r \in Responses :
       (r.op \in {"createTask", "toggleTask", "updateTask"} /\ Consumed(r)
          /\ r.status # 200) =>
          /\ tasks' = tasks
          /\ message'.type = "error"
          /\ message'.text = ExpectedErrorText(r)]_vars

\* A toggle was answered 404 and the entry is still listed.
C14_Witness ==
  /\ message = Banner("error", <<"API Error: ", "Not Found">>)
  /\ tasks # <<>>
  /\ \E i \in 1..Len(tasks) : tasks[i].id \notin {t.id : t \in srvTasks}

\* C15: the step that resumes a successful create puts the returned task in
\* front of the unchanged previous entries, and the returned id is then
\* listed exactly once.
C15_CreatedOnce ==
  [][\A r \in Responses :
       (r.op = "createTask" /\ Consumed(r) /\ r.status = 200) =>
          /\ tasks' = <<r.body[1]>> \o tasks
          /\ Cardinality({i \in 1..Len(tasks') : tasks'[i].id = r.body[1].id}) = 1]_vars

\* Requests (not responses) put on the network by this step.
RequestsAdded ==
  {m \in BagToSet(net') : m.kind = "req" /\ Added(m)}

\* A step issues at most one request, a handler called by the user issues
\* exactly one, and a step that resumes a task call issues none.
SingleShot ==
  /\ BagCardinality(net') <= BagCardinality(net) + 1
  /\ issued' = issued + 1 =>
       (BagCardinality(net') = BagCardinality(net) + 1 /\ RequestsAdded # {})
  /\ \A r \in Responses :
       (r.api = "task" /\ Consumed(r)) =>
          (RequestsAdded = {} /\ BagCardinality(net') = BagCardinality(net) - 1)

\* C16 as stated: every task operation leaves a banner when it completes,
\* and no request is issued again.
C16_AlwaysMessage ==
  [][/\ SingleShot
     /\ \A r \in Responses :
          (r.api = "task" /\ Consumed(r)) => message'.type # "none"]_vars

\* C16 amended: a failed task operation leaves an error banner; a successful
\* create, update or delete leaves a success banner; a successful load or
\* toggle leaves the banner as it was; no request is issued again.
C16_MessageOnFailure ==
  [][/\ SingleShot
     /\ \A r \in Responses :
          (r.api = "task" /\ Consumed(r)) =>
             IF r.status # 200
             THEN message'.type = "error" /\ message'.text # <<>>
             ELSE IF r.op \in {"createTask", "updateTask", "deleteTask"}
                  THEN message'.type = "success" /\ message'.text # <<>>
                  ELSE message' = message]_vars

\* A delete failed after a create succeeded; nothing is in flight.
C16_Witness ==
  /\ message.type = "error"
  /\ hist.created # {}
  /\ issued = MaxOps
  /\ net = EmptyBag

\* C17: the step that resumes a successful login or signup leaves in memory
\* the token and user of the response and under the two storage keys that
\* token and the serialized user.
C17_LoginPersists ==
  [][\A r \in Responses :
       (r.api = "auth" /\ Consumed(r) /\ r.status = 200 /\ r.json) =>
          /\ token' = r.tok
          /\ user' = r.usr
          /\ storage' = [jwt_token |-> r.tok,
                         user |-> Some([fmt |-> "json", id |-> r.usr[1].id,
                                        email |-> r.usr[1].email])]]_vars

\* C18: the step that resumes a login or signup that was rejected, got a
\* body that is not JSON or could not reach the backend raises an alert with
\* the error's text, stays on the form's page and leaves the token and user
\* in memory and both storage keys as they were.
C18_FailedLoginKeepsSession ==
  [][\A r \in Responses :
       (r.api = "auth" /\ Consumed(r) /\ (r.status # 200 \/ ~r.json)) =>
          /\ alertText' # <<>>
          /\ alertText'[1] # ""
          /\ r.status = 0 => alertText'[1] =
               "Cannot connect to server. Make sure the backend is running on http://localhost:8000"
          /\ page' = page
          /\ token' = token
          /\ user' = user
          /\ storage' = storage]_vars

\* A login failed on a page that was loaded with a stored session.
C18_Witness ==
  /\ page = "login"
  /\ ~authLoading
  /\ alertText # <<>>
  /\ token = Some("t1")
  /\ user # Null
  /\ storage.jwt_token = Some("t1")

\* C19: a call of handleSubmit while the input is empty or holds only
\* whitespace leaves the transcript, the conversation id, the loading flag
\* and the network as they were.
C19_EmptySubmitIsNoOp ==
  [][(submits' # submits /\ Trim(input) = <<>>) =>
       /\ messages' = messages
       /\ conversationId' = conversationId
       /\ chatLoading' = chatLoading
       /\ net' = net]_vars

\* handleSubmit was called once, on an input of one blank.
C19_Witness ==
  /\ showChat
  /\ submits = 1
  /\ input = <<" ">>
  /\ messages = <<>>
  /\ ~chatLoading
  /\ SendsInFlight = 0

\* C20: the step that issues a chat request appends the user's message; the
\* step that resumes with its response appends one assistant message (the
\* reply, or the text of the error) right after that user message.
C20_UserThenAssistant ==
  [][/\ \A m \in RequestsAdded :
          m.op = "sendMessage" =>
             messages' = Append(messages, ChatMessage("user", m.text))
     /\ \A r \in Responses :
          (r.op = "sendMessage" /\ Consumed(r)) =>
             /\ Len(messages') = Len(messages) + 1
             /\ SubSeq(messages', 1, Len(messages)) = messages
             /\ messages'[Len(messages')].role = "assistant"
             /\ messages'[Len(messages')].content # <<>>
             /\ r.status = 200 => messages'[Len(messages')].content = r.text
             /\ Len(messages) > 0
             /\ messages[Len(messages)].role = "user"]_vars

\* C21: the step that resumes a successful send made while the conversation
\* id was null adopts the id of the response and asks for the conversation
\* list again; the step that resumes a send made with an id leaves the
\* current id as it is.
C21_AdoptsId ==
  [][\A r \in Responses :
       (r.op = "sendMessage" /\ Consumed(r) /\ r.status = 200) =>
          IF r.ctx = Null
          THEN r.convs # Null =>
                 /\ conversationId' = r.convs
                 /\ GetUserId(storage') # Null =>
                      \E m \in RequestsAdded : m.op = "getConversations"
          ELSE conversationId' = conversationId]_vars

\* C22: while the thread on screen holds the id the backend gave its first
\* message, every chat request carries that id.
C22_ReusesAssignedId ==
  [][\A m \in RequestsAdded :
       (m.op = "sendMessage" /\ assigned # Null /\ assigned # Detached) =>
          m.conv = assigned]_vars

\* The messages the backend holds for the conversation id, oldest first.
StoredFor(id) == SelectSeq(srvMsgs, LAMBDA sm : sm.conversation_id = id)

\* C23: the step that resumes a successful loadConversation(id) leaves as
\* transcript the messages of the response, one entry per stored message, in
\* the order the backend stored them for that id, and id as current
\* conversation; the step that resumes a failed one leaves both unchanged.
C23_LoadConversationReplaces ==
  [][\A r \in Responses :
       (r.op = "getConversationMessages" /\ Consumed(r)) =>
          IF r.status = 200
          THEN /\ Len(messages') = Len(r.msgs)
               /\ \A i \in 1..Len(r.msgs) :
                    /\ messages'[i].role = r.msgs[i].role
                    /\ messages'[i].content = r.msgs[i].content
               /\ r.msgs = SubSeq(StoredFor(r.id), 1, Len(r.msgs))
               /\ conversationId' = Some(r.id)
          ELSE /\ messages' = messages
               /\ conversationId' = conversationId]_vars

\* Conversation 0 of an earlier visit has been loaded into the panel.
C23_Witness ==
  /\ showChat
  /\ conversationId = Some(0)
  /\ messages = <<ChatMessage("user", <<"x">>), ChatMessage("assistant", ReplyText)>>
  /\ net = EmptyBag

\* C24: a step of the open panel that resumes no call and empties the
\* transcript or clears the conversation id (startNewChat) does both, and
\* leaves the network, the backend and the conversation list as they were.
C24_StartNewChatClears ==
  [][(/\ showChat /\ showChat'
      /\ \A r \in Responses : ~Consumed(r)
      /\ \/ (messages # <<>> /\ messages' = <<>>)
         \/ (conversationId # Null /\ conversationId' = Null)) =>
       /\ messages' = <<>>
       /\ conversationId' = Null
       /\ net' = net
       /\ issued' = issued
       /\ conversations' = conversations
       /\ srvMsgs' = srvMsgs
       /\ nextConv' = nextConv]_vars

\* "New chat" was clicked while a send was in flight.
C24_Witness ==
  /\ showChat
  /\ assigned = Detached
  /\ messages = <<>>
  /\ conversationId = Null
  /\ SendsInFlight = 1
  /\ srvMsgs # <<>>

\* C25: a call of TaskForm.handleSubmit on a title that is empty or blank
\* issues no request and leaves the title field and the task list as they
\* were; a call of TaskItem.handleSave on such a title issues no request and
\* leaves the item in edit mode with the text it holds.
C25_BlankTitleBlocked ==
  [][/\ (clicks'.submit # clicks.submit /\ Trim(formTitle) = <<>>) =>
          /\ net' = net
          /\ formTitle' = formTitle
          /\ tasks' = tasks
          /\ editor' = editor
     /\ (clicks'.save # clicks.save /\ Trim(editor[1].editTitle) = <<>>) =>
          /\ net' = net
          /\ editor' = editor
          /\ editor'[1].isEditing
          /\ tasks' = tasks]_vars

\* Both handlers were called once on a blank title and nothing was sent.
C25_Witness ==
  /\ clicks = [submit |-> 1, save |-> 1]
  /\ formTitle = <<" ">>
  /\ Editing
  /\ editor[1].editTitle = <<" ">>
  /\ issued = 0
  /\ net = EmptyBag

\* C26: the step that resumes a send whose thread the user has left
\* (startNewChat or loadConversation while it was in flight) leaves the
\* transcript and the conversation id of the thread on screen as they are.
C26_NoLeakIntoNewThread ==
  [][\A r \in Responses :
       (r.op = "sendMessage" /\ Consumed(r) /\ assigned = Detached) =>
          /\ messages' = messages
          /\ conversationId' = conversationId]_vars

\* C27: when the session store is initialised and no call is in flight,
\* isAuthenticated holds exactly when the key jwt_token is in storage.
C27_SessionAgreesWithStorage ==
  Quiescent => (IsAuthenticated <=> storage.jwt_token # Null)

\* C28: the step that resumes a send, whatever its outcome, and the step of
\* an accepted submit that is refused for want of a user id, leave the
\* loading flag cleared; the flag is set only while a send is in flight.
C28_LoadingReleased ==
  [][/\ \A r \in Responses :
          (r.op = "sendMessage" /\ Consumed(r)) => ~chatLoading'
     /\ (submits' # submits /\ Trim(input) # <<>> /\ ~chatLoading /\ net' = net) =>
          ~chatLoading'
     /\ chatLoading' => SendsInFlight' = 1]_vars

\* A send failed on the network and the next submit was accepted.
C28_Witness ==
  /\ chatLoading
  /\ Len(messages) = 3
  /\ messages[2] = ChatMessage("assistant", FailedToFetchText)
  /\ messages[3].role = "user"
  /\ SendsInFlight = 1

\* C29: the step that resumes a successful toggle or update of an id the
\* list no longer holds leaves the list as it is.
C29_NoResurrection ==
  [][\A r \in Responses :
       (r.op \in {"toggleTask", "updateTask"} /\ Consumed(r) /\ r.status = 200
          /\ r.id \notin Ids(tasks)) =>
          tasks' = tasks]_vars

\* An update was confirmed after the delete of the same task had been.
C29_Witness ==
  /\ message = Banner("success", <<"Task updated">>)
  /\ hist.deleted # {}
  /\ tasks = <<>>
  /\ net = EmptyBag

\* No user id can be read from storage: the key user is absent, does not
\* parse, or holds a user without id.
UserIdAbsent ==
  \/ storage.user = Null
  \/ storage.user[1].fmt # "json"
  \/ storage.user[1].id = ""

\* C30: while no user id is stored no chat request is issued, and an accepted
\* submit appends the user's message followed by the assistant entry
\* 'User not authenticated', with the loading flag cleared.
C30_NoUserIdNoRequest ==
  [][UserIdAbsent =>
       /\ \A m \in RequestsAdded : m.api # "chat"
       /\ (submits' # submits /\ Trim(input) # <<>> /\ ~chatLoading) =>
            /\ messages' = messages \o <<ChatMessage("user", Trim(input)),
                                         ChatMessage("assistant", UserNotAuthenticatedText)>>
            /\ ~chatLoading'
            /\ net' = net]_vars

\* A submit was refused after a 401 had cleared the storage.
C30_Witness ==
  /\ expired
  /\ storage.user = Null
  /\ Len(messages) >= 2
  /\ messages[Len(messages)] = ChatMessage("assistant", UserNotAuthenticatedText)
  /\ messages[Len(messages) - 1].role = "user"
  /\ ~chatLoading

====
